---------------------------- MODULE Spec2Model ----------------------------
(***************************************************************************)
(* Model of the automotive utilities of the Editor.js table plugin         *)
(* (src/src/plugin.js, lines 690-1196): cell parsing, min/max scan,        *)
(* gradient colours, the three smoothing algorithms and the blank filler;  *)
(* and of the TableBlock that calls them (lines 74-687): this.data, the    *)
(* items of the tune menu, the smoothing prompt, paste and save.           *)
(*                                                                         *)
(* Conventions                                                             *)
(*  - a cell text is a sequence of one-character strings; the JavaScript   *)
(*    value `undefined` (a column missing from a short row) is Undefined;  *)
(*  - a grid is a sequence of rows, each a sequence of cell texts; i and j *)
(*    are the 0-based indices of the code, translated at each access;      *)
(*  - a number is a fraction <<n, d>> with d > 0, or Null when the parser  *)
(*    finds no number.  Arithmetic is exact: the rounding error of IEEE    *)
(*    doubles is not modelled, NaN is the value NaN;                       *)
(*  - a call ends in an outcome [kind, grid]: kind "ok" with the returned  *)
(*    grid, or the name of the exception thrown.                           *)
(***************************************************************************)
EXTENDS Integers, Sequences, FiniteSets, TLC

----------------------------------------------------------------------------
(* Characters and texts *)

Digits == <<"0", "1", "2", "3", "4", "5", "6", "7", "8", "9">>

IsDigit(ch) == \E k \in 1..10 : Digits[k] = ch

DigitValue(ch) == (CHOOSE k \in 1..10 : Digits[k] = ch) - 1

Undefined == <<"undefined">>

Null == <<"null">>

NaN == <<"NaN">>

\* Position k of s lies in a match of /<[^>]*>/g: a '<' at or before k with
\* no '>' between them, and a '>' at or after k.
InTag(s, k) ==
    /\ \E p \in 1..k : s[p] = "<" /\ \A m \in p..(k - 1) : s[m] # ">"
    /\ \E q \in k..Len(s) : s[q] = ">"

\* The n-th smallest position of the set K
Nth(K, n) == CHOOSE k \in K : Cardinality({m \in K : m < k}) = n - 1

\* The characters of s at the positions of K, in order
Pick(s, K) == [n \in 1..Cardinality(K) |-> s[Nth(K, n)]]

\* String.prototype.replace(/<[^>]*>/g, ''): every span from a '<' to the
\* first '>' after it is removed; a '<' with no '>' after it stays.
StripTags(s) == Pick(s, {k \in 1..Len(s) : ~InTag(s, k)})

IsSpace(ch) == ch = " "

\* String.prototype.trim(): the leading and the trailing spaces are dropped
TrimLeft(s) ==
    SubSeq(s, Cardinality({k \in 1..Len(s) : \A m \in 1..k : IsSpace(s[m])}) + 1,
           Len(s))

TrimRight(s) ==
    SubSeq(s, 1,
           Len(s) - Cardinality({k \in 1..Len(s) : \A m \in k..Len(s) : IsSpace(s[m])}))

Trim(s) == TrimRight(TrimLeft(s))

\* String.prototype.includes('.')
IncludesDot(s) == \E k \in 1..Len(s) : s[k] = "."

\* s.split('.')[1] || '': the piece between the first and the second '.'.
SplitDotSecond(s) ==
    IF ~IncludesDot(s) THEN <<>>
    ELSE LET first == CHOOSE k \in 1..Len(s) :
                          s[k] = "." /\ \A m \in 1..(k - 1) : s[m] # "."
             rest  == SubSeq(s, first + 1, Len(s))
         IN  IF IncludesDot(rest)
             THEN LET second == CHOOSE k \in 1..Len(rest) :
                          rest[k] = "." /\ \A m \in 1..(k - 1) : rest[m] # "."
                  IN  SubSeq(rest, 1, second - 1)
             ELSE rest

----------------------------------------------------------------------------
(* Numbers: exact fractions *)

Abs(x) == IF x < 0 THEN -x ELSE x

RECURSIVE Gcd(_, _)
Gcd(a, b) == IF b = 0 THEN a ELSE Gcd(b, a % b)

RECURSIVE Pow10(_)
Pow10(k) == IF k = 0 THEN 1 ELSE 10 * Pow10(k - 1)

Frac(n, d) ==
    LET g == Gcd(Abs(n), d)
    IN  IF n = 0 THEN <<0, 1>> ELSE <<n \div g, d \div g>>

IsNum(x) == x # Null /\ x # NaN

\* Sums and products reduce before they multiply, to stay within TLC's integers.
Add(x, y) ==
    LET g == Gcd(x[2], y[2])
    IN  Frac(x[1] * (y[2] \div g) + y[1] * (x[2] \div g), (x[2] \div g) * y[2])

Neg(x) == <<-x[1], x[2]>>

Sub(x, y) == Add(x, Neg(y))

Mul(x, y) ==
    IF x[1] = 0 \/ y[1] = 0 THEN <<0, 1>>
    ELSE LET g1 == Gcd(Abs(x[1]), y[2])
             g2 == Gcd(Abs(y[1]), x[2])
         IN  Frac((x[1] \div g1) * (y[1] \div g2), (x[2] \div g2) * (y[2] \div g1))

\* x / y for y # 0
Div(x, y) ==
    IF y[1] > 0 THEN Mul(x, <<y[2], y[1]>>) ELSE Mul(x, <<-y[2], -y[1]>>)

Less(x, y) == x[1] * y[2] < y[1] * x[2]

Leq(x, y)  == x[1] * y[2] <= y[1] * x[2]

Whole(n) == <<n, 1>>

MathMin(x, y) == IF Less(y, x) THEN y ELSE x

MathMax(x, y) == IF Less(x, y) THEN y ELSE x

\* Math.floor and Math.ceil of a fraction, as integers
Floor(x) == x[1] \div x[2]

Ceil(x) == -((-x[1]) \div x[2])

----------------------------------------------------------------------------
(* parseFloat and Number.prototype.toFixed *)

\* The longest run of decimal digits at the start of s.
DigitRun(s) ==
    SubSeq(s, 1, Cardinality({k \in 1..Len(s) : \A m \in 1..k : IsDigit(s[m])}))

RECURSIVE DigitsToInt(_)
DigitsToInt(ds) ==
    IF ds = <<>> THEN 0
    ELSE 10 * DigitsToInt(SubSeq(ds, 1, Len(ds) - 1)) + DigitValue(ds[Len(ds)])

\* Trailing zeros of a fraction part carry no value.
DropTrailingZeros(ds) ==
    SubSeq(ds, 1,
           Len(ds) - Cardinality({k \in 1..Len(ds) : \A m \in k..Len(ds) : ds[m] = "0"}))

\* parseFloat(text): optional sign, digits, optional '.' and digits; the
\* parse stops at the first character that does not continue the number.
\* NaN when no digit is found.  (Exponents and the word Infinity are not
\* part of the cell alphabet of this model.)
\* The value of the integer digits ip followed by the fraction digits fp.
Magnitude(ip, fp) ==
    Frac(DigitsToInt(ip) * Pow10(Len(fp)) + DigitsToInt(fp), Pow10(Len(fp)))

\* The digits after a '.' at the start of `after`, none without the '.'.
FractionDigits(after) ==
    IF after # <<>> /\ Head(after) = "." THEN DigitRun(Tail(after)) ELSE <<>>

ParseDigits(ip, fd) ==
    IF ip = <<>> /\ fd = <<>> THEN NaN
    ELSE Magnitude(ip, DropTrailingZeros(fd))

ParseUnsigned(body, ip) ==
    ParseDigits(ip, FractionDigits(SubSeq(body, Len(ip) + 1, Len(body))))

ParseBody(body) == ParseUnsigned(body, DigitRun(body))

Negate(x) == IF x = NaN THEN NaN ELSE <<-x[1], x[2]>>

ParseTrimmed(s) ==
    IF s # <<>> /\ Head(s) = "-" THEN Negate(ParseBody(Tail(s)))
    ELSE IF s # <<>> /\ Head(s) = "+" THEN ParseBody(Tail(s))
    ELSE ParseBody(s)

ParseFloat(text) == ParseTrimmed(TrimLeft(text))

RECURSIVE IntToDigits(_)
IntToDigits(n) ==
    IF n < 10 THEN <<Digits[n + 1]>>
    ELSE IntToDigits(n \div 10) \o <<Digits[(n % 10) + 1]>>

RECURSIVE PadLeft(_, _)
PadLeft(ds, width) ==
    IF Len(ds) >= width THEN ds ELSE PadLeft(<<"0">> \o ds, width)

RangeError == <<"RangeError">>

\* Number.prototype.toFixed accepts at most this many digits.
ToFixedLimit == 100

\* x.toFixed(digits): RangeError unless 0 <= digits <= 100; otherwise the
\* decimal text of x rounded to `digits` places, ties away from zero.
\* num / den rounded to the nearest integer, ties upward (num, den >= 0)
RoundDiv(num, den) ==
    IF 2 * (num % den) >= den THEN (num \div den) + 1 ELSE num \div den

\* The digits ds with a '.' before the last `digits` of them.
PointBefore(ds, digits) ==
    SubSeq(ds, 1, Len(ds) - digits)
        \o (IF digits = 0 THEN <<>>
            ELSE <<".">> \o SubSeq(ds, Len(ds) - digits + 1, Len(ds)))

ToFixed(x, digits) ==
    IF digits < 0 \/ digits > ToFixedLimit THEN RangeError
    ELSE IF x = NaN THEN NaN
    ELSE (IF x[1] < 0 THEN <<"-">> ELSE <<>>)
            \o PointBefore(PadLeft(IntToDigits(RoundDiv(Abs(x[1]) * Pow10(digits),
                                                         x[2])),
                                    digits + 1),
                            digits)

----------------------------------------------------------------------------
(* Grids *)

\* content.length and content[i].length
Length(content) == Len(content)

RowLength(content, i) == Len(content[i + 1])

\* content[i][j] for an existing row i: undefined when the row has no column j
At(content, i, j) ==
    IF j >= 0 /\ j < RowLength(content, i) THEN content[i + 1][j + 1]
    ELSE Undefined

\* result[i][j] = text
Put(result, i, j, text) ==
    [result EXCEPT ![i + 1] = [@ EXCEPT ![j + 1] = text]]

\* The cells (i, j) the loops `for i = startRow.. / for j = startCol..` visit,
\* in the order they visit them.
RECURSIVE RowCells(_, _, _)
RowCells(content, i, j) ==
    IF j >= RowLength(content, i) THEN <<>>
    ELSE <<(<<i, j>>)>> \o RowCells(content, i, j + 1)

RECURSIVE LoopCells(_, _, _)
LoopCells(content, i, startCol) ==
    IF i >= Length(content) THEN <<>>
    ELSE RowCells(content, i, startCol) \o LoopCells(content, i + 1, startCol)

\* A first data row that ignores the heading flag.
StartRowZero(skipFirstRow) == 0

StartRow(skipFirstRow) == IF skipFirstRow THEN 1 ELSE 0

StartCol(skipFirstColumn) == IF skipFirstColumn THEN 1 ELSE 0

Ok(grid) == [kind |-> "ok", grid |-> grid]

Thrown(name) == [kind |-> name, grid |-> <<>>]

----------------------------------------------------------------------------
(* parseNumericValue, getMinMaxValues *)

\* A conversion that takes a text without a number for 0.
ZeroIfNaN(num) == IF num = NaN THEN Whole(0) ELSE num

\* isNaN(num) ? null : num
NullIfNaN(num) == IF num = NaN THEN Null ELSE num

parseNumericValue(content) ==
    IF content = Undefined \/ content = <<>> THEN Null
    ELSE NullIfNaN(ParseFloat(Trim(StripTags(content))))

\* A scan step that keeps the last value as the minimum.
MinMaxStepLast(acc, value) ==
    IF value = Null THEN acc
    ELSE [hasValues |-> TRUE, min |-> value,
          max |-> IF acc.hasValues THEN MathMax(acc.max, value) ELSE value]

\* min starts at Infinity and max at -Infinity, so the first value found
\* becomes both.
\* if (value !== null) { min = Math.min(min, value); max = ...; hasValues = true }
MinMaxStep(acc, value) ==
    IF value = Null THEN acc
    ELSE [hasValues |-> TRUE,
          min |-> IF acc.hasValues THEN MathMin(acc.min, value) ELSE value,
          max |-> IF acc.hasValues THEN MathMax(acc.max, value) ELSE value]

RECURSIVE MinMaxScan(_, _, _)
MinMaxScan(content, cells, acc) ==
    IF cells = <<>> THEN acc
    ELSE MinMaxScan(content, Tail(cells),
                    MinMaxStep(acc, parseNumericValue(At(content, Head(cells)[1],
                                                         Head(cells)[2]))))

\* return hasValues ? { min, max, hasValues } : { min: 0, max: 1, hasValues: false }
MinMaxResult(scan) ==
    IF scan.hasValues THEN scan
    ELSE [min |-> Whole(0), max |-> Whole(1), hasValues |-> FALSE]

getMinMaxValues(content, skipFirstRow, skipFirstColumn) ==
    MinMaxResult(MinMaxScan(content,
                            LoopCells(content, StartRow(skipFirstRow),
                                      StartCol(skipFirstColumn)),
                            [hasValues |-> FALSE, min |-> Whole(0), max |-> Whole(0)]))

----------------------------------------------------------------------------
(* Smoothing: what one iteration of the (i, j) loop computes *)

NoWrite == <<"nowrite">>

\* content[i][j].includes('.') ? (content[i][j].split('.')[1] || '')
\*     .replace(/<[^>]*>/g, '').length : 0
SmoothedDecimals(cell) ==
    IF IncludesDot(cell) THEN Len(StripTags(SplitDotSecond(cell))) ELSE 0

Max(a, b) == IF a >= b THEN a ELSE b

\* smoothedValue.toFixed(Math.max(decimals, 2))
SmoothedText(smoothedValue, cell) ==
    ToFixed(smoothedValue, Max(SmoothedDecimals(cell), 2))

\* The offsets (di, dj) of a square window of half-width h, in loop order.
WindowOffsets(h) ==
    IF h < 0 THEN <<>>
    ELSE [k \in 1..((2 * h + 1) * (2 * h + 1)) |->
            <<((k - 1) \div (2 * h + 1)) - h, ((k - 1) % (2 * h + 1)) - h>>]

\* ni >= startRow && ni < content.length && nj >= startCol
\*     && nj < content[i].length
InWindowBounds(content, i, ni, nj, startRow, startCol) ==
    /\ ni >= startRow
    /\ ni < Length(content)
    /\ nj >= startCol
    /\ nj < RowLength(content, i)

\* parseNumericValue(content[ni][nj]) for a neighbour in bounds; a neighbour
\* out of bounds contributes nothing
NeighborValue(src, i, ni, nj, startRow, startCol) ==
    IF InWindowBounds(src, i, ni, nj, startRow, startCol)
    THEN parseNumericValue(At(src, ni, nj))
    ELSE Null

\* if (neighborValue !== null) { sum += neighborValue; count++; }
MovingAverageStep(acc, neighborValue) ==
    IF neighborValue = Null THEN acc
    ELSE [sum |-> Add(acc.sum, neighborValue), count |-> acc.count + 1]

RECURSIVE MovingAverageSum(_, _, _, _, _, _, _)
MovingAverageSum(src, i, j, offsets, startRow, startCol, acc) ==
    IF offsets = <<>> THEN acc
    ELSE MovingAverageSum(src, i, j, Tail(offsets), startRow, startCol,
             MovingAverageStep(acc,
                 NeighborValue(src, i, i + Head(offsets)[1], j + Head(offsets)[2],
                               startRow, startCol)))

\* const smoothedValue = sum / count
MovingAverageValue(acc) == Div(acc.sum, Whole(acc.count))

\* if (value === null) continue; ... if (count > 0) result[i][j] = ...
MovingAverageWrite(value, acc, cell) ==
    IF value = Null THEN NoWrite
    ELSE IF acc.count > 0
         THEN SmoothedText(MovingAverageValue(acc), cell)
         ELSE NoWrite

MovingAverageCell(src, i, j, halfWindow, startRow, startCol) ==
    MovingAverageWrite(parseNumericValue(At(src, i, j)),
                       MovingAverageSum(src, i, j, WindowOffsets(halfWindow),
                                        startRow, startCol,
                                        [sum |-> Whole(0), count |-> 0]),
                       At(src, i, j))

\* Math.exp(x) to three decimals, for the arguments the kernels of this
\* model produce; Math.exp(NaN) is NaN.
ExpTable ==
    { <<Whole(0), 1000>>, <<(<<1, 2>>), 607>>, <<Whole(1), 368>>,
      <<Whole(2), 135>>, <<(<<5, 2>>), 82>>, <<Whole(4), 18>>,
      <<(<<9, 2>>), 11>>, <<Whole(5), 7>>, <<(<<13, 2>>), 2>>,
      <<Whole(8), 0>>, <<Whole(9), 0>>, <<Whole(10), 0>>,
      <<Whole(13), 0>>, <<Whole(16), 0>>, <<Whole(18), 0>>,
      <<Whole(20), 0>>, <<Whole(26), 0>>, <<Whole(32), 0>>, <<Whole(36), 0>> }

MathExp(x) ==
    IF x = NaN THEN NaN
    ELSE Frac((CHOOSE e \in ExpTable : e[1] = Neg(x))[2], 1000)

\* Math.exp(-(i * i + j * j) / (2 * sigma * sigma)); 0 / 0 is NaN
KernelValue(di, dj, sigma) ==
    IF sigma[1] = 0 THEN MathExp(NaN)
    ELSE MathExp(Div(Whole(-(di * di + dj * dj)),
                     Mul(Whole(2), Mul(sigma, sigma))))

AddN(x, y) == IF x = NaN \/ y = NaN THEN NaN ELSE Add(x, y)

MulN(x, y) == IF x = NaN \/ y = NaN THEN NaN ELSE Mul(x, y)

DivN(x, y) == IF x = NaN \/ y = NaN \/ y[1] = 0 THEN NaN ELSE Div(x, y)

\* kernelSum += value over the kernel.  The additions are taken by halves of
\* the kernel: the sums are exact, so the grouping does not change them.
RECURSIVE KernelTotal(_, _)
KernelTotal(offsets, sigma) ==
    IF offsets = <<>> THEN Whole(0)
    ELSE IF Len(offsets) = 1
         THEN KernelValue(Head(offsets)[1], Head(offsets)[2], sigma)
         ELSE AddN(KernelTotal(SubSeq(offsets, 1, Len(offsets) \div 2), sigma),
                   KernelTotal(SubSeq(offsets, (Len(offsets) \div 2) + 1,
                                      Len(offsets)), sigma))

\* Math.floor(kernelSize / 2) with kernelSize = Math.ceil(sigma * 3) * 2 + 1
HalfSize(sigma) == (Ceil(Mul(sigma, Whole(3))) * 2 + 1) \div 2

\* kernel[ki][kj] after `kernel[i][j] /= kernelSum`
KernelWeight(di, dj, sigma, kernelSum) ==
    DivN(KernelValue(di, dj, sigma), kernelSum)

\* if (neighborValue !== null) { sum += neighborValue * weight;
\*                                weightSum += weight; }
GaussianStep(acc, neighborValue, weight) ==
    IF neighborValue = Null THEN acc
    ELSE [sum |-> AddN(acc.sum, MulN(neighborValue, weight)),
          weightSum |-> AddN(acc.weightSum, weight)]

\* sum and weightSum of two parts of the kernel together
GaussianPlus(a, b) ==
    [sum |-> AddN(a.sum, b.sum), weightSum |-> AddN(a.weightSum, b.weightSum)]

\* The kernel loop from acc on, its additions taken by halves of the kernel
\* (the sums are exact, so the grouping does not change them).
RECURSIVE GaussianSum(_, _, _, _, _, _, _, _, _)
GaussianSum(src, i, j, offsets, sigma, kernelSum, startRow, startCol, acc) ==
    IF offsets = <<>> THEN acc
    ELSE IF Len(offsets) = 1
         THEN GaussianStep(acc,
                  NeighborValue(src, i, i + Head(offsets)[1], j + Head(offsets)[2],
                                startRow, startCol),
                  KernelWeight(Head(offsets)[1], Head(offsets)[2], sigma, kernelSum))
         ELSE GaussianPlus(
                  GaussianSum(src, i, j, SubSeq(offsets, 1, Len(offsets) \div 2),
                              sigma, kernelSum, startRow, startCol, acc),
                  GaussianSum(src, i, j,
                              SubSeq(offsets, (Len(offsets) \div 2) + 1, Len(offsets)),
                              sigma, kernelSum, startRow, startCol,
                              [sum |-> Whole(0), weightSum |-> Whole(0)]))

\* const smoothedValue = sum / weightSum
GaussianValue(acc) == DivN(acc.sum, acc.weightSum)

\* if (value === null) continue; ... if (weightSum > 0) result[i][j] = ...
GaussianWrite(value, acc, cell) ==
    IF value = Null THEN NoWrite
    ELSE IF acc.weightSum # NaN /\ acc.weightSum[1] > 0
         THEN SmoothedText(GaussianValue(acc), cell)
         ELSE NoWrite

GaussianCell(src, i, j, sigma, kernelSum, startRow, startCol) ==
    GaussianWrite(parseNumericValue(At(src, i, j)),
                  GaussianSum(src, i, j, WindowOffsets(HalfSize(sigma)), sigma,
                              kernelSum, startRow, startCol,
                              [sum |-> Whole(0), weightSum |-> Whole(0)]),
                  At(src, i, j))

\* The values of the 4-connected neighbours that exist and parse.
\* if (v !== null) neighbors.push(v)
PushValue(v) == IF v = Null THEN <<>> ELSE <<v>>

\* if (cond) { const v = parseNumericValue(content[ni][nj]); ... }
PushNeighbor(src, cond, ni, nj) ==
    IF cond THEN PushValue(parseNumericValue(At(src, ni, nj))) ELSE <<>>

\* The 4-connected neighbours taken from the whole grid, the mask ignored.
BilinearNeighborsUnmasked(src, i, j, startRow, startCol) ==
    PushNeighbor(src, i > 0, i - 1, j)
        \o PushNeighbor(src, i < Length(src) - 1, i + 1, j)
        \o PushNeighbor(src, j > 0, i, j - 1)
        \o PushNeighbor(src, j < RowLength(src, i) - 1, i, j + 1)

BilinearNeighbors(src, i, j, startRow, startCol) ==
    PushNeighbor(src, i > startRow, i - 1, j)
        \o PushNeighbor(src, i < Length(src) - 1, i + 1, j)
        \o PushNeighbor(src, j > startCol, i, j - 1)
        \o PushNeighbor(src, j < RowLength(src, i) - 1, i, j + 1)

RECURSIVE SumSeq(_)
SumSeq(values) ==
    IF values = <<>> THEN Whole(0) ELSE Add(Head(values), SumSeq(Tail(values)))

\* A mean that divides the sum of the cell and its neighbours by the number
\* of neighbours alone.
BilinearValueOverNeighbors(value, neighbors) ==
    Div(Add(value, SumSeq(neighbors)), Whole(Len(neighbors)))

\* const smoothedValue = (value + neighbors.reduce((a, b) => a + b, 0))
\*     / (neighbors.length + 1)
BilinearValue(value, neighbors) ==
    Div(Add(value, SumSeq(neighbors)), Whole(Len(neighbors) + 1))

\* if (value === null) continue; ... if (neighbors.length > 0) result[i][j] = ...
BilinearWrite(value, neighbors, cell) ==
    IF value = Null THEN NoWrite
    ELSE IF Len(neighbors) > 0
         THEN SmoothedText(BilinearValue(value, neighbors), cell)
         ELSE NoWrite

BilinearCell(src, i, j, startRow, startCol) ==
    BilinearWrite(parseNumericValue(At(src, i, j)),
                  BilinearNeighbors(src, i, j, startRow, startCol),
                  At(src, i, j))

----------------------------------------------------------------------------
(* autoFillBlanks: what one iteration of the (i, j) loop computes *)

Nbsp == <<"&", "n", "b", "s", "p", ";">>

\* An emptiness test that takes every cell without a number for empty.
isEmptyOrLabel(cell) == parseNumericValue(cell) = Null

\* !cell, or the stripped and trimmed text is '' or '&nbsp;'
isEmpty(cell) ==
    IF cell = Undefined \/ cell = <<>> THEN TRUE
    ELSE Trim(StripTags(cell)) \in {<<>>, Nbsp}

\* parts[1] ? parts[1].length : 0 on the stripped and trimmed text
getDecimalPlaces(cell) == Len(SplitDotSecond(Trim(StripTags(cell))))

NotFound == [found |-> FALSE, value |-> Null, distance |-> 0, decimals |-> 0]

\* The while loop of findNearest from (r, c): it returns at the first cell
\* that is not empty and parses, and steps on otherwise.
RECURSIVE FindNearestFrom(_, _, _, _, _, _, _, _, _)
FindNearestFrom(src, row, col, r, c, dRow, dCol, startRow, startCol) ==
    IF ~(/\ r >= startRow
         /\ r < Length(src)
         /\ c >= startCol
         /\ c < RowLength(src, 0))
    THEN NotFound
    ELSE IF ~isEmpty(At(src, r, c)) /\ parseNumericValue(At(src, r, c)) # Null
         THEN [found |-> TRUE, value |-> parseNumericValue(At(src, r, c)),
               distance |-> Abs(r - row) + Abs(c - col),
               decimals |-> getDecimalPlaces(At(src, r, c))]
         ELSE FindNearestFrom(src, row, col, r + dRow, c + dCol,
                              dRow, dCol, startRow, startCol)

findNearest(src, row, col, dRow, dCol, startRow, startCol) ==
    FindNearestFrom(src, row, col, row + dRow, col + dCol, dRow, dCol,
                    startRow, startCol)

\* top, bottom, left, right: the directions that found a value, in push order
\* if (top) { values.push(top.value); weights.push(1 / top.distance); ... }
Found(hit) == IF hit.found THEN <<hit>> ELSE <<>>

FoundDirections(src, i, j, startRow, startCol) ==
    Found(findNearest(src, i, j, -1, 0, startRow, startCol))
        \o Found(findNearest(src, i, j, 1, 0, startRow, startCol))
        \o Found(findNearest(src, i, j, 0, -1, startRow, startCol))
        \o Found(findNearest(src, i, j, 0, 1, startRow, startCol))

\* weights.push(1 / distance)
Weight(hit) == <<1, hit.distance>>

RECURSIVE WeightedSum(_)
WeightedSum(hits) ==
    IF hits = <<>> THEN Whole(0)
    ELSE Add(Mul(Head(hits).value, Weight(Head(hits))), WeightedSum(Tail(hits)))

RECURSIVE TotalWeight(_)
TotalWeight(hits) ==
    IF hits = <<>> THEN Whole(0)
    ELSE Add(Weight(Head(hits)), TotalWeight(Tail(hits)))

\* Math.max(...decimalCounts, 1)
RECURSIVE MaxDecimals(_)
MaxDecimals(hits) ==
    IF hits = <<>> THEN 1 ELSE Max(Head(hits).decimals, MaxDecimals(Tail(hits)))

\* if (values.length > 0) result[i][j] = interpolated.toFixed(decimals)
AutoFillWrite(hits) ==
    IF Len(hits) > 0
    THEN ToFixed(Div(WeightedSum(hits), TotalWeight(hits)), MaxDecimals(hits))
    ELSE NoWrite

\* A fill that does not test the cell for emptiness.
AutoFillCellAny(src, i, j, startRow, startCol) ==
    AutoFillWrite(FoundDirections(src, i, j, startRow, startCol))

AutoFillCell(src, i, j, startRow, startCol) ==
    IF ~isEmpty(At(src, i, j)) THEN NoWrite
    ELSE AutoFillWrite(FoundDirections(src, i, j, startRow, startCol))

----------------------------------------------------------------------------
(* The four passes *)

\* A call of the core: the method and its parameter (windowSize, sigma).
CellUpdate(call, src, i, j, startRow, startCol) ==
    CASE call.method = "movingAverage" ->
             MovingAverageCell(src, i, j, call.halfWindow, startRow, startCol)
      [] call.method = "gaussian" ->
             GaussianCell(src, i, j, call.sigma, call.kernelSum, startRow, startCol)
      [] call.method = "bilinear" ->
             BilinearCell(src, i, j, startRow, startCol)
      [] call.method = "autoFill" ->
             AutoFillCell(src, i, j, startRow, startCol)

\* One iteration of the loop: result[i][j] = ..., or the exception of toFixed.
Write(out, i, j, text) ==
    IF text = NoWrite THEN out
    ELSE IF text = RangeError THEN Thrown("RangeError")
    ELSE Ok(Put(out.grid, i, j, text))

Iterate(call, content, out, i, j, startRow, startCol) ==
    Write(out, i, j, CellUpdate(call, content, i, j, startRow, startCol))

\* The loop over `cells`; an exception ends it.
RECURSIVE RunPass(_, _, _, _, _, _)
RunPass(call, content, cells, out, startRow, startCol) ==
    IF cells = <<>> \/ out.kind # "ok" THEN out
    ELSE RunPass(call, content, Tail(cells),
                 Iterate(call, content, out, Head(cells)[1], Head(cells)[2],
                         startRow, startCol),
                 startRow, startCol)

\* const result = content.map((row) => [...row]), then the loop
Pass(call, content, skipFirstRow, skipFirstColumn) ==
    RunPass(call, content,
            LoopCells(content, StartRow(skipFirstRow), StartCol(skipFirstColumn)),
            Ok(content), StartRow(skipFirstRow), StartCol(skipFirstColumn))

\* if (windowSize % 2 === 0) windowSize += 1;
\* halfWindow = Math.floor(windowSize / 2)
HalfWindow(windowSize) ==
    (IF windowSize % 2 = 0 THEN windowSize + 1 ELSE windowSize) \div 2

MovingAverageCall(windowSize) ==
    [method |-> "movingAverage", windowSize |-> windowSize,
     halfWindow |-> HalfWindow(windowSize)]

GaussianCall(sigma) ==
    [method |-> "gaussian", sigma |-> sigma,
     kernelSum |-> KernelTotal(WindowOffsets(HalfSize(sigma)), sigma)]

BilinearCall == [method |-> "bilinear"]

AutoFillCall == [method |-> "autoFill"]

applyMovingAverage(content, windowSize, skipFirstRow, skipFirstColumn) ==
    Pass(MovingAverageCall(windowSize), content, skipFirstRow, skipFirstColumn)

applyGaussianSmoothing(content, sigma, skipFirstRow, skipFirstColumn) ==
    Pass(GaussianCall(sigma), content, skipFirstRow, skipFirstColumn)

applyBilinearInterpolation(content, skipFirstRow, skipFirstColumn) ==
    Pass(BilinearCall, content, skipFirstRow, skipFirstColumn)

autoFillBlanks(content, skipFirstRow, skipFirstColumn) ==
    Pass(AutoFillCall, content, skipFirstRow, skipFirstColumn)

----------------------------------------------------------------------------
(* Gradient colours *)

Stop(value, r, g, b) == [value |-> value, color |-> <<r, g, b>>]

COLOR_SCHEMES ==
    [ THERMAL |->
        << Stop(Whole(0), 0, 0, 255), Stop(<<1, 4>>, 0, 255, 255),
           Stop(<<1, 2>>, 0, 255, 0), Stop(<<3, 4>>, 255, 255, 0),
           Stop(Whole(1), 255, 0, 0) >>,
      GRAYSCALE |->
        << Stop(Whole(0), 255, 255, 255), Stop(Whole(1), 0, 0, 0) >>,
      VIRIDIS |->
        << Stop(Whole(0), 68, 1, 84), Stop(<<1, 4>>, 59, 82, 139),
           Stop(<<1, 2>>, 33, 145, 140), Stop(<<3, 4>>, 94, 201, 98),
           Stop(Whole(1), 253, 231, 37) >>,
      AUTOMOTIVE |->
        << Stop(Whole(0), 30, 30, 180), Stop(<<1, 5>>, 60, 120, 220),
           Stop(<<2, 5>>, 100, 200, 100), Stop(<<3, 5>>, 255, 200, 60),
           Stop(<<4, 5>>, 255, 120, 30), Stop(Whole(1), 220, 20, 20) >> ]

SchemeNames == {"THERMAL", "GRAYSCALE", "VIRIDIS", "AUTOMOTIVE"}

\* COLOR_SCHEMES[name]: undefined for a name that is no key
SchemeOf(name) ==
    IF name \in SchemeNames THEN COLOR_SCHEMES[name] ELSE Undefined

\* Math.round: the nearest integer, ties upward
MathRound(x) == Floor(Add(x, <<1, 2>>))

\* Math.round(color1[k] + (color2[k] - color1[k]) * factor)
interpolateColor(color1, color2, factor) ==
    [k \in 1..3 |->
        MathRound(Add(Whole(color1[k]),
                      Mul(Whole(color2[k] - color1[k]), factor)))]

\* The decimal text of an integer
NumberText(n) ==
    IF n < 0 THEN <<"-">> \o IntToDigits(-n) ELSE IntToDigits(n)

\* `rgb(${rgb[0]}, ${rgb[1]}, ${rgb[2]})`
RgbText(rgb) ==
    <<"r", "g", "b", "(">> \o NumberText(rgb[1]) \o <<",", " ">>
        \o NumberText(rgb[2]) \o <<",", " ">> \o NumberText(rgb[3]) \o <<")">>

\* The index of the first pair of adjacent stops that brackets the value,
\* 0 when the loop finds none.
RECURSIVE BracketFrom(_, _, _)
BracketFrom(colors, normalizedValue, k) ==
    IF k > Len(colors) - 1 THEN 0
    ELSE IF /\ Leq(colors[k].value, normalizedValue)
            /\ Leq(normalizedValue, colors[k + 1].value)
         THEN k
         ELSE BracketFrom(colors, normalizedValue, k + 1)

\* Destructuring `colors` from an undefined scheme throws a TypeError.
\* lowerStop = colors[0] and upperStop = colors[colors.length - 1] unless the
\* loop finds a bracketing pair
LowerStop(colors, k) == IF k = 0 THEN colors[1] ELSE colors[k]

UpperStop(colors, k) == IF k = 0 THEN colors[Len(colors)] ELSE colors[k + 1]

\* range === 0 ? 0 : (normalizedValue - lowerStop.value) / range
Factor(normalizedValue, lowerStop, upperStop) ==
    IF Sub(upperStop.value, lowerStop.value)[1] = 0 THEN Whole(0)
    ELSE Div(Sub(normalizedValue, lowerStop.value),
             Sub(upperStop.value, lowerStop.value))

StopsColor(normalizedValue, lowerStop, upperStop) ==
    RgbText(interpolateColor(lowerStop.color, upperStop.color,
                             Factor(normalizedValue, lowerStop, upperStop)))

BracketColor(colors, normalizedValue, k) ==
    StopsColor(normalizedValue, LowerStop(colors, k), UpperStop(colors, k))

\* The value as it was passed, without the clamp.
ClampNone(normalizedValue) == normalizedValue

\* normalizedValue = Math.max(0, Math.min(1, normalizedValue))
Clamp(normalizedValue) == MathMax(Whole(0), MathMin(Whole(1), normalizedValue))

ClampedColor(colors, clamped) ==
    BracketColor(colors, clamped, BracketFrom(colors, clamped, 1))

\* Destructuring `colors` from an undefined scheme throws a TypeError.
getColorForValue(normalizedValue, colorScheme) ==
    IF colorScheme = Undefined THEN [kind |-> "TypeError", text |-> <<>>]
    ELSE [kind |-> "ok", text |-> ClampedColor(colorScheme, Clamp(normalizedValue))]

\* String.prototype.match(/\d+/g).map(Number): the numbers of the digit runs
RECURSIVE MatchDigitRuns(_)
MatchDigitRuns(s) ==
    IF s = <<>> THEN <<>>
    ELSE IF IsDigit(Head(s))
         THEN LET run == DigitRun(s)
              IN  <<DigitsToInt(run)>>
                      \o MatchDigitRuns(SubSeq(s, Len(run) + 1, Len(s)))
         ELSE MatchDigitRuns(Tail(s))

NoColors(kind) == [kind |-> kind, backgroundColor |-> <<>>, textColor |-> <<>>]

Black == <<"#", "0", "0", "0", "0", "0", "0">>

White == <<"#", "f", "f", "f", "f", "f", "f">>

\* A flat dataset put at the low end of the scheme.
NormalizeFlatLow(value, min, max) ==
    IF Sub(max, min)[1] = 0 THEN Whole(0)
    ELSE Div(Sub(value, min), Sub(max, min))

\* range === 0 ? 0.5 : (value - min) / range
Normalize(value, min, max) ==
    IF Sub(max, min)[1] = 0 THEN <<1, 2>>
    ELSE Div(Sub(value, min), Sub(max, min))

\* Dark text from a brightness of 128 on, 128 included.
TextColorAtLeast(rgb) ==
    IF rgb[1] * 299 + rgb[2] * 587 + rgb[3] * 114 >= 128 * 1000
    THEN Black ELSE White

\* brightness = (rgb[0] * 299 + rgb[1] * 587 + rgb[2] * 114) / 1000;
\* brightness > 128 ? '#000000' : '#ffffff'
TextColor(rgb) ==
    IF rgb[1] * 299 + rgb[2] * 587 + rgb[3] * 114 > 128 * 1000
    THEN Black ELSE White

\* const rgb = backgroundColor.match(/\d+/g).map(Number): match returns null
\* for a text without digits, and null.map throws a TypeError
ColorsOf(backgroundColor, rgb) ==
    IF rgb = <<>> THEN NoColors("TypeError")
    ELSE [kind |-> "ok", backgroundColor |-> backgroundColor,
          textColor |-> TextColor(rgb)]

BackgroundColors(background) ==
    IF background.kind # "ok" THEN NoColors(background.kind)
    ELSE ColorsOf(background.text, MatchDigitRuns(background.text))

getCellColors(value, min, max, colorScheme) ==
    BackgroundColors(getColorForValue(Normalize(value, min, max), colorScheme))

----------------------------------------------------------------------------
(* Inputs: cell texts, grids, parameters *)

MaxRows == 2

MaxCols == 3

MaxCells == 4

\* At most this many cells of a generated grid are not the empty text.
MaxFilled == 2

Blank == <<>>

CellTexts ==
    { Nbsp,                                         \* &nbsp;
      <<"<", "i", ">", " ", "<", "/", "i", ">">>,   \* <i> </i>
      <<"x">>,                                      \* a label
      <<"1", "0">>,                                 \* 10
      <<"2", ".", "5">>,                            \* 2.5
      <<"<", "b", ">", "4", "<", "/", "b", ">">> }  \* <b>4</b>

RECURSIVE SumLengths(_)
SumLengths(shape) ==
    IF shape = <<>> THEN 0 ELSE Head(shape) + SumLengths(Tail(shape))

\* Row lengths of the grids: every number of rows up to MaxRows, every
\* row of any length up to MaxCols (rows may differ in length), at most
\* MaxCells cells in all.
Shapes ==
    { shape \in UNION { [1..n -> 0..MaxCols] : n \in 0..MaxRows } :
        SumLengths(shape) <= MaxCells }

BlankGrid(shape) == [r \in 1..Len(shape) |-> [c \in 1..shape[r] |-> Blank]]

GridCells(grid) ==
    UNION { { <<i, j>> : j \in 0..(RowLength(grid, i) - 1) } :
              i \in 0..(Length(grid) - 1) }

RECURSIVE FillUpTo(_, _)
FillUpTo(grids, k) ==
    IF k = 0 THEN grids
    ELSE FillUpTo(grids \cup UNION { { Put(g, p[1], p[2], t) :
                                          p \in GridCells(g), t \in CellTexts } :
                                      g \in grids },
                  k - 1)

GeneratedGrids == UNION { FillUpTo({BlankGrid(shape)}, MaxFilled) : shape \in Shapes }

\* The grids of the documented examples.
ExampleBilinear ==
    << <<(<<"1">>), <<"2">>, <<"3">> >>,
       <<(<<"4">>), <<"5">>, <<"6">> >>,
       <<(<<"7">>), <<"8">>, <<"9">> >> >>

ExampleMinMax ==
    << <<(<<"1", "0">>)>>, <<(<<"2", "0">>)>>, <<(<<"l", "a", "b", "e", "l">>)>> >>

ExampleFlat ==
    << <<(<<"5">>), <<"5">> >>, <<(<<"5">>), <<"5">> >> >>

ExampleIdw == << <<(<<"1", "0">>), <<>>, <<"3", "0">> >> >>

\* A single-value grid whose value has more fraction digits than toFixed
\* accepts: 1.000...0
LongFraction == <<"1", ".">> \o [k \in 1..(ToFixedLimit + 1) |-> "0"]

ExampleLongFraction == << <<LongFraction>> >>

\* A single number whose markup holds a '.': <i id="a.b">7</i>
MarkupPoint ==
    << "<", "i", " ", "i", "d", "=", "\"", "a", ".", "b", "\"", ">",
       "7", "<", "/", "i", ">" >>

ExampleMarkupPoint == << <<MarkupPoint>> >>

ExampleGrids ==
    { ExampleBilinear, ExampleMinMax, ExampleFlat, ExampleIdw,
      ExampleLongFraction, ExampleMarkupPoint }

Grids == GeneratedGrids \cup ExampleGrids

\* Window sizes and sigmas a caller may pass, valid and invalid.
WindowSizes == {-2, 0, 2, 3}

Sigmas == { <<-1, 1>>, <<0, 1>>, <<1, 2>> }

UnknownScheme == "RAINBOW"

----------------------------------------------------------------------------
(* The state: one grid and mask, and the last call of the core on them *)

\* content, skipFirstRow, skipFirstColumn: the arguments of the call;
\* call, outcome: the call made and what it returned or threw;
\* rows, result, pending: a call taken cell by cell (see below);
\* data: this.data of the TableBlock that holds the grid (see below), empty
\* where the core is called without a block.
VARIABLES content, skipFirstRow, skipFirstColumn, call, outcome,
          rows, result, pending, data

vars == <<content, skipFirstRow, skipFirstColumn, call, outcome,
          rows, result, pending, data>>

NoData == <<>>

NoCall == [method |-> "none"]

Idle ==
    /\ skipFirstRow \in BOOLEAN
    /\ skipFirstColumn \in BOOLEAN
    /\ call = NoCall
    /\ outcome = [kind |-> "none"]
    /\ rows = <<>>
    /\ result = <<>>
    /\ pending = {}
    /\ data = NoData

Init == content \in Grids /\ Idle

Returns(c, o) ==
    /\ call = NoCall
    /\ call' = c
    /\ outcome' = o
    /\ UNCHANGED <<content, skipFirstRow, skipFirstColumn, rows, result, pending, data>>

CallGetMinMaxValues ==
    Returns([method |-> "getMinMaxValues"],
            [kind |-> "ok",
             range |-> getMinMaxValues(content, skipFirstRow, skipFirstColumn)])

CallApplyMovingAverage ==
    \E windowSize \in WindowSizes :
        Returns(MovingAverageCall(windowSize),
                applyMovingAverage(content, windowSize, skipFirstRow, skipFirstColumn))

CallApplyGaussianSmoothing ==
    \E sigma \in Sigmas :
        Returns(GaussianCall(sigma),
                applyGaussianSmoothing(content, sigma, skipFirstRow, skipFirstColumn))

CallApplyBilinearInterpolation ==
    Returns(BilinearCall,
            applyBilinearInterpolation(content, skipFirstRow, skipFirstColumn))

CallAutoFillBlanks ==
    Returns(AutoFillCall, autoFillBlanks(content, skipFirstRow, skipFirstColumn))

\* The colours of one numeric in-mask cell, over the range of the grid.
CellColors(value, range, colorScheme) ==
    getCellColors(value, range.min, range.max, colorScheme)

CallGetCellColors ==
    \E cell \in GridCells(content), scheme \in SchemeNames \cup {UnknownScheme} :
        /\ cell[1] >= StartRow(skipFirstRow)
        /\ cell[2] >= StartCol(skipFirstColumn)
        /\ parseNumericValue(At(content, cell[1], cell[2])) # Null
        /\ Returns([method |-> "getCellColors", cell |-> cell, scheme |-> scheme],
                   CellColors(parseNumericValue(At(content, cell[1], cell[2])),
                              getMinMaxValues(content, skipFirstRow, skipFirstColumn),
                              SchemeOf(scheme)))

Next ==
    \/ CallGetMinMaxValues
    \/ CallApplyMovingAverage
    \/ CallApplyGaussianSmoothing
    \/ CallApplyBilinearInterpolation
    \/ CallAutoFillBlanks
    \/ CallGetCellColors

Spec == Init /\ [][Next]_vars

----------------------------------------------------------------------------
(* A pass taken cell by cell, in any order.                                 *)
(* rows is the heap of row arrays: the rows of the caller's grid come       *)
(* first, `result` holds the indices of the rows of the returned grid, and  *)
(* `pending` the cells the loop has still to visit.  One step is one        *)
(* iteration of the loop body, which reads the caller's rows and assigns    *)
(* one cell of the result.                                                  *)

MaxOrderCells == 3

OrderGrids == { grid \in Grids : Cardinality(GridCells(grid)) <= MaxOrderCells }

OrderCalls ==
    { MovingAverageCall(3), GaussianCall(<<1, 2>>), BilinearCall, AutoFillCall }

\* The grid made of the rows that `refs` points to
Deref(heap, refs) == [k \in 1..Len(refs) |-> heap[refs[k]]]

\* The caller's grid as the loop reads it
Input == Deref(rows, [k \in 1..Len(content) |-> k])

\* A result that shares the rows of the caller's grid.
ShareRows(n) == [k \in 1..n |-> k]

\* content.map((row) => [...row]): n new rows, after the n rows of content
CopyRows(n) == [k \in 1..n |-> n + k]

InitCells == content \in OrderGrids /\ Idle

Begin ==
    \E c \in OrderCalls :
        /\ call = NoCall
        /\ call' = c
        /\ rows' = content \o content
        /\ result' = CopyRows(Len(content))
        /\ pending' = { LoopCells(content, StartRow(skipFirstRow),
                                  StartCol(skipFirstColumn))[k] :
                          k \in 1..Len(LoopCells(content, StartRow(skipFirstRow),
                                                 StartCol(skipFirstColumn))) }
        /\ outcome' = [kind |-> "running"]
        /\ UNCHANGED <<content, skipFirstRow, skipFirstColumn, data>>

\* result[i][j] = text, or the exception of toFixed
Assign(cell, text) ==
    IF text = RangeError
    THEN /\ outcome' = Thrown("RangeError")
         /\ pending' = {}
         /\ UNCHANGED rows
    ELSE /\ rows' = IF text = NoWrite THEN rows
                    ELSE [rows EXCEPT ![result[cell[1] + 1]][cell[2] + 1] = text]
         /\ pending' = pending \ {cell}
         /\ UNCHANGED outcome

ProcessCell ==
    \E cell \in pending :
        /\ outcome.kind = "running"
        /\ Assign(cell, CellUpdate(call, Input, cell[1], cell[2],
                                   StartRow(skipFirstRow), StartCol(skipFirstColumn)))
        /\ UNCHANGED <<content, skipFirstRow, skipFirstColumn, call, result, data>>

\* return result
Return ==
    /\ outcome.kind = "running"
    /\ pending = {}
    /\ outcome' = Ok(Deref(rows, result))
    /\ UNCHANGED <<content, skipFirstRow, skipFirstColumn, call, rows,
                   result, pending, data>>

NextCells == Begin \/ ProcessCell \/ Return

SpecCells == InitCells /\ [][NextCells]_vars

----------------------------------------------------------------------------
(* Vocabulary of the properties *)

\* Cell (i, j) lies inside the mask: not in row 0 when skipFirstRow, not in
\* column 0 when skipFirstColumn.
InMask(i, j) == (skipFirstRow => i >= 1) /\ (skipFirstColumn => j >= 1)

InMaskCells(grid) == {cell \in GridCells(grid) : InMask(cell[1], cell[2])}

OutOfMaskCells(grid) == GridCells(grid) \ InMaskCells(grid)

SameShape(a, b) ==
    /\ Len(a) = Len(b)
    /\ \A r \in 1..Len(a) : Len(a[r]) = Len(b[r])

\* The text of a cell parses as a number.
Numeric(cell) == parseNumericValue(cell) # Null

\* Blank: the markup-stripped, trimmed text is empty or the &nbsp; marker.
IsBlank(cell) == Trim(StripTags(cell)) \in {<<>>, Nbsp}

SmoothingMethods == {"movingAverage", "gaussian", "bilinear"}

Smoothed == call.method \in SmoothingMethods /\ outcome.kind = "ok"

Filled == call.method = "autoFill" /\ outcome.kind = "ok"

----------------------------------------------------------------------------
(* C1 *)

\* C1: a smoothing call returns a grid of the shape of its input, in which
\* every cell outside the mask and every cell whose text does not parse as a
\* number is the input cell.
C1_SmoothingFrame ==
    Smoothed =>
        /\ SameShape(outcome.grid, content)
        /\ \A cell \in GridCells(content) :
              (~InMask(cell[1], cell[2]) \/ ~Numeric(At(content, cell[1], cell[2])))
                  => At(outcome.grid, cell[1], cell[2]) = At(content, cell[1], cell[2])

\* A smoothing call that rewrote a cell while a numeric cell lay outside the
\* mask and a non-numeric cell inside it.
C1_Witness ==
    /\ Smoothed
    /\ outcome.grid # content
    /\ \E cell \in OutOfMaskCells(content) : Numeric(At(content, cell[1], cell[2]))
    /\ \E cell \in InMaskCells(content) : ~Numeric(At(content, cell[1], cell[2]))

----------------------------------------------------------------------------
(* C10 *)

\* The numbers the in-mask cells parse to.
InMaskValues ==
    { parseNumericValue(At(content, cell[1], cell[2])) :
        cell \in {c \in InMaskCells(content) : Numeric(At(content, c[1], c[2]))} }

\* C10: getMinMaxValues returns hasValues = true with the smallest and the
\* largest number among the in-mask cells that parse, and exactly
\* {min: 0, max: 1, hasValues: false} when no in-mask cell parses.
C10_MinMax ==
    call.method = "getMinMaxValues" =>
        IF InMaskValues = {}
        THEN outcome.range = [min |-> <<0, 1>>, max |-> <<1, 1>>, hasValues |-> FALSE]
        ELSE /\ outcome.range.hasValues = TRUE
             /\ outcome.range.min \in InMaskValues
             /\ outcome.range.max \in InMaskValues
             /\ \A v \in InMaskValues :
                    Leq(outcome.range.min, v) /\ Leq(v, outcome.range.max)
             /\ Leq(outcome.range.min, outcome.range.max)

\* The documented example: [["10"],["20"],["label"]] without a mask gives
\* {min: 10, max: 20, hasValues: true}.
C10_Witness ==
    /\ call.method = "getMinMaxValues"
    /\ content = ExampleMinMax
    /\ ~skipFirstRow /\ ~skipFirstColumn
    /\ outcome.range = [min |-> <<10, 1>>, max |-> <<20, 1>>, hasValues |-> TRUE]

----------------------------------------------------------------------------
(* C2 *)

\* Grids that differ from content only outside the mask: one out-of-mask
\* cell holds another text, or (row 0 being outside the mask) row 0 has
\* another number of cells.
OutOfMaskVariants ==
    { Put(content, cell[1], cell[2], text) :
        cell \in OutOfMaskCells(content), text \in CellTexts \cup {Blank} }
    \cup (IF skipFirstRow /\ Length(content) > 0
          THEN { [content EXCEPT ![1] = [k \in 1..n |-> Blank]] : n \in 0..MaxCols }
          ELSE {})

InMaskEqual(a, b) ==
    \A cell \in InMaskCells(content) :
        At(a, cell[1], cell[2]) = At(b, cell[1], cell[2])

\* C2: two grids that differ only in cells outside the mask have the same
\* min/max/hasValues, and every smoothing algorithm and autoFillBlanks give
\* them the same content at every in-mask cell.
C2_OutOfMaskNeverRead ==
    /\ call.method = "getMinMaxValues" =>
          \A variant \in OutOfMaskVariants :
              getMinMaxValues(variant, skipFirstRow, skipFirstColumn) = outcome.range
    /\ (Smoothed \/ Filled) =>
          \A variant \in OutOfMaskVariants :
              /\ Pass(call, variant, skipFirstRow, skipFirstColumn).kind = "ok"
              /\ InMaskEqual(Pass(call, variant, skipFirstRow, skipFirstColumn).grid,
                             outcome.grid)

----------------------------------------------------------------------------
(* C3 *)

\* C3: autoFillBlanks returns a grid of the shape of its input, in which
\* every cell outside the mask and every cell that is not blank (labels
\* included) is the input cell.
C3_AutoFillFrame ==
    Filled =>
        /\ SameShape(outcome.grid, content)
        /\ \A cell \in GridCells(content) :
              (~InMask(cell[1], cell[2]) \/ ~IsBlank(At(content, cell[1], cell[2])))
                  => At(outcome.grid, cell[1], cell[2]) = At(content, cell[1], cell[2])

\* A fill that rewrote a cell while a label lay inside the mask and a blank
\* cell outside it.
C3_Witness ==
    /\ Filled
    /\ outcome.grid # content
    /\ \E cell \in InMaskCells(content) :
          /\ ~IsBlank(At(content, cell[1], cell[2]))
          /\ ~Numeric(At(content, cell[1], cell[2]))
    /\ \E cell \in OutOfMaskCells(content) : IsBlank(At(content, cell[1], cell[2]))

----------------------------------------------------------------------------
(* C4 *)

SecondPass == autoFillBlanks(outcome.grid, skipFirstRow, skipFirstColumn)

\* A walk of the code from (i, j) reaches a numeric cell of the grid: one in
\* column j, or one in row i, the columns the walk crosses all lying below
\* the length of row 0.
Reachable(grid, i, j) ==
    \/ /\ j < RowLength(grid, 0)
       /\ \E r \in 0..(Length(grid) - 1) :
              r # i /\ InMask(r, j) /\ Numeric(At(grid, r, j))
    \/ /\ j - 1 < RowLength(grid, 0)
       /\ \E c \in 0..(j - 1) : InMask(i, c) /\ Numeric(At(grid, i, c))
    \/ \E c \in (j + 1)..(RowLength(grid, 0) - 1) : Numeric(At(grid, i, c))

\* C4 as stated: a second pass returns the grid of the first pass.
C4_Idempotent == Filled => SecondPass = Ok(outcome.grid)

\* C4, amended: a second pass changes exactly the in-mask cells that the
\* first pass left blank and from which a walk reaches a numeric cell of the
\* first pass's output; every other cell is as the first pass returned it.
C4_SecondPassFillsLeftovers ==
    Filled =>
        /\ SecondPass.kind = "ok"
        /\ SameShape(SecondPass.grid, outcome.grid)
        /\ \A cell \in GridCells(outcome.grid) :
              At(SecondPass.grid, cell[1], cell[2]) # At(outcome.grid, cell[1], cell[2])
                  <=> /\ InMask(cell[1], cell[2])
                      /\ IsBlank(At(outcome.grid, cell[1], cell[2]))
                      /\ Reachable(outcome.grid, cell[1], cell[2])

\* A first pass that filled a cell and left another blank, which the second
\* pass fills.
C4_Witness ==
    /\ Filled
    /\ outcome.grid # content
    /\ SecondPass.kind = "ok"
    /\ SecondPass.grid # outcome.grid

----------------------------------------------------------------------------
(* C5, C7 *)

\* The walk as specified: from (r, c) in steps of (dRow, dCol) inside the
\* grid and the mask, a left/right walk inside the row, up to the first
\* cell that is not blank.  The position of that cell, <<-1, -1>> if the walk
\* ends without one.
RECURSIVE FirstNonBlank(_, _, _, _, _)
FirstNonBlank(grid, r, c, dRow, dCol) ==
    IF \/ r < 0 \/ r >= Length(grid) \/ c < 0
       \/ ~InMask(r, c)
       \/ (dCol # 0 /\ c >= RowLength(grid, r))
    THEN <<-1, -1>>
    ELSE IF ~(At(grid, r, c) = Undefined \/ IsBlank(At(grid, r, c)))
         THEN <<r, c>>
         ELSE FirstNonBlank(grid, r + dRow, c + dCol, dRow, dCol)

Directions == { <<-1, 0>>, <<1, 0>>, <<0, -1>>, <<0, 1>> }

\* The cells that contribute to (i, j): in each direction the first cell
\* that is not blank, if it parses as a number.
Contributors(grid, i, j) ==
    { cell \in { FirstNonBlank(grid, i + d[1], j + d[2], d[1], d[2]) : d \in Directions } :
        cell # <<-1, -1>> /\ Numeric(At(grid, cell[1], cell[2])) }

\* C5: a blank in-mask cell stays blank when, in each of the four
\* directions, the first cell that is not blank is a label or there is none:
\* no number beyond a label is used.
C5_LabelBlocksWalk ==
    Filled =>
        \A cell \in InMaskCells(content) :
            (IsBlank(At(content, cell[1], cell[2]))
                /\ Contributors(content, cell[1], cell[2]) = {})
              => At(outcome.grid, cell[1], cell[2]) = At(content, cell[1], cell[2])

\* The number of characters after the first '.' of the stripped, trimmed text
DecimalPlaces(cell) ==
    IF IncludesDot(Trim(StripTags(cell)))
    THEN Len(Trim(StripTags(cell)))
            - (CHOOSE k \in 1..Len(Trim(StripTags(cell))) :
                  /\ Trim(StripTags(cell))[k] = "."
                  /\ \A m \in 1..(k - 1) : Trim(StripTags(cell))[m] # ".")
    ELSE 0

Distance(i, j, cell) == Abs(cell[1] - i) + Abs(cell[2] - j)

RECURSIVE SumOver(_, _, _, _, _)
SumOver(grid, i, j, cells, weighted) ==
    IF cells = {} THEN Whole(0)
    ELSE Add(IF weighted
             THEN Div(parseNumericValue(At(grid, (CHOOSE x \in cells : TRUE)[1],
                                           (CHOOSE x \in cells : TRUE)[2])),
                      Whole(Distance(i, j, CHOOSE x \in cells : TRUE)))
             ELSE <<1, Distance(i, j, CHOOSE x \in cells : TRUE)>>,
             SumOver(grid, i, j, cells \ {CHOOSE x \in cells : TRUE}, weighted))

RECURSIVE MaxPlaces(_, _)
MaxPlaces(grid, cells) ==
    IF cells = {} THEN 1
    ELSE Max(DecimalPlaces(At(grid, (CHOOSE x \in cells : TRUE)[1],
                              (CHOOSE x \in cells : TRUE)[2])),
             MaxPlaces(grid, cells \ {CHOOSE x \in cells : TRUE}))

\* sum(value_k / distance_k) / sum(1 / distance_k), with
\* max(largest decimalPlaces, 1) decimal places
IdwText(grid, i, j, cells) ==
    ToFixed(Div(SumOver(grid, i, j, cells, TRUE), SumOver(grid, i, j, cells, FALSE)),
            MaxPlaces(grid, cells))

\* C7: every blank in-mask cell with a contributing direction holds the
\* inverse-distance-weighted average of the contributing cells, with
\* max(largest decimalPlaces, 1) decimal places; a blank cell without a
\* contributing direction stays blank.
C7_WeightedAverage ==
    Filled =>
        \A cell \in InMaskCells(content) :
            IsBlank(At(content, cell[1], cell[2])) =>
                At(outcome.grid, cell[1], cell[2]) =
                    IF Contributors(content, cell[1], cell[2]) = {}
                    THEN At(content, cell[1], cell[2])
                    ELSE IdwText(content, cell[1], cell[2],
                                 Contributors(content, cell[1], cell[2]))

----------------------------------------------------------------------------
(* C8, C9 *)

\* C8: an unknown colour scheme, a window size <= 0 and a sigma <= 0 end in
\* an error, never in a returned grid or colour.
C8_InvalidParameterFails ==
    /\ (call.method = "movingAverage" /\ call.windowSize <= 0) => outcome.kind # "ok"
    /\ (call.method = "gaussian" /\ call.sigma[1] <= 0) => outcome.kind # "ok"
    /\ (call.method = "getCellColors" /\ call.scheme \notin SchemeNames)
          => outcome.kind # "ok"

ValidParameters ==
    /\ call.method = "movingAverage" => call.windowSize > 0
    /\ call.method = "gaussian" => call.sigma[1] > 0
    /\ call.method = "getCellColors" => call.scheme \in SchemeNames

\* Malformed data: an empty grid, without a number (blank cells,
\* labels), with one number or one repeated number, rows of different length.
Malformed(grid) ==
    \/ GridCells(grid) = {}
    \/ Cardinality({ parseNumericValue(At(grid, cell[1], cell[2])) :
                       cell \in GridCells(grid) } \ {Null}) <= 1
    \/ \E r1, r2 \in 1..Len(grid) : Len(grid[r1]) # Len(grid[r2])

\* C9: on a malformed grid every call with valid parameters returns normally.
C9_MalformedDataReturns ==
    (call.method # "none" /\ ValidParameters /\ Malformed(content))
        => outcome.kind = "ok"

----------------------------------------------------------------------------
(* C6 *)

\* C6: whatever the order in which the cells are processed, the caller's
\* grid is never changed, and the call ends as the row-major pass over the
\* caller's grid ends: with the same grid, or the same exception.
C6_AnyOrderSameResult ==
    /\ outcome.kind = "running" => Input = content
    /\ outcome.kind \notin {"none", "running"} =>
          /\ Input = content
          /\ outcome = Pass(call, content, skipFirstRow, skipFirstColumn)

\* A call taken cell by cell that returned with at least two cells rewritten.
C6_Witness ==
    /\ outcome.kind = "ok"
    /\ rows # <<>>
    /\ Cardinality({ cell \in GridCells(content) :
                       At(outcome.grid, cell[1], cell[2])
                           # At(content, cell[1], cell[2]) }) >= 2

----------------------------------------------------------------------------
(* The colour functions called on their own: getColorForValue on           *)
(* normalized values below 0, in [0, 1] and above 1, getCellColors on a    *)
(* value and a range.                                                      *)

\* Normalized values are the multiples of 1/ColorSteps from -4/ColorSteps
\* to 1 + 4/ColorSteps.
ColorSteps == 20

NormalizedValues == { Frac(k, ColorSteps) : k \in (0 - 4)..(ColorSteps + 4) }

\* Values, minima and maxima of a dataset: the integers 0..MaxDatasetValue.
MaxDatasetValue == 4

DatasetValues == { Whole(n) : n \in 0..MaxDatasetValue }

InitColors ==
    /\ content = <<>>
    /\ skipFirstRow = FALSE
    /\ skipFirstColumn = FALSE
    /\ call = NoCall
    /\ outcome = [kind |-> "none"]
    /\ rows = <<>>
    /\ result = <<>>
    /\ pending = {}
    /\ data = NoData

CallGetColorForValue ==
    \E normalizedValue \in NormalizedValues,
       scheme \in SchemeNames \cup {UnknownScheme} :
        Returns([method |-> "getColorForValue",
                 normalizedValue |-> normalizedValue, scheme |-> scheme],
                getColorForValue(normalizedValue, SchemeOf(scheme)))

CallGetCellColorsOf ==
    \E value \in DatasetValues, min \in DatasetValues, max \in DatasetValues,
       scheme \in SchemeNames \cup {UnknownScheme} :
        /\ Leq(min, max)
        /\ Returns([method |-> "getCellColors", value |-> value,
                    min |-> min, max |-> max, scheme |-> scheme],
                   getCellColors(value, min, max, SchemeOf(scheme)))

NextColors ==
    \/ CallGetColorForValue
    \/ CallGetCellColorsOf

SpecColors == InitColors /\ [][NextColors]_vars

----------------------------------------------------------------------------
(* C11 *)

\* A text is rgb(R, G, B) with three integers in 0..255.
IsRgbText(text) ==
    /\ Len(MatchDigitRuns(text)) = 3
    /\ \A k \in 1..3 : MatchDigitRuns(text)[k] \in 0..255
    /\ text = RgbText(MatchDigitRuns(text))

FirstColor(scheme) == COLOR_SCHEMES[scheme][1].color

LastColor(scheme) == COLOR_SCHEMES[scheme][Len(COLOR_SCHEMES[scheme])].color

\* C11: for each built-in scheme getColorForValue returns three integer
\* channels in 0..255; a value at or below 0 gets the colour of the first
\* stop and a value at or above 1 the colour of the last stop.
C11_ColorInRange ==
    (call.method = "getColorForValue" /\ call.scheme \in SchemeNames) =>
        /\ outcome.kind = "ok"
        /\ IsRgbText(outcome.text)
        /\ Leq(call.normalizedValue, Whole(0)) =>
               outcome.text = RgbText(FirstColor(call.scheme))
        /\ Leq(Whole(1), call.normalizedValue) =>
               outcome.text = RgbText(LastColor(call.scheme))

\* A value above 1 is clamped to the last colour of the AUTOMOTIVE scheme.
C11_Witness ==
    /\ call.method = "getColorForValue"
    /\ call.scheme = "AUTOMOTIVE"
    /\ Less(Whole(1), call.normalizedValue)
    /\ outcome.text = RgbText(<<220, 20, 20>>)

----------------------------------------------------------------------------
(* C12 *)

Luma(rgb) == 299 * rgb[1] + 587 * rgb[2] + 114 * rgb[3]

\* C12: for every background rgb(R, G, B) that getCellColors produces from
\* a built-in scheme, the text colour is #000000 exactly when
\* 299*R + 587*G + 114*B > 128000, and #ffffff otherwise.
C12_TextColorByLuma ==
    (call.method = "getCellColors" /\ call.scheme \in SchemeNames) =>
        /\ outcome.kind = "ok"
        /\ IsRgbText(outcome.backgroundColor)
        /\ outcome.textColor =
               IF Luma(MatchDigitRuns(outcome.backgroundColor)) > 128000
               THEN Black ELSE White

\* The middle of GRAYSCALE is rgb(128, 128, 128), whose luma is exactly
\* 128000: the text is white.
C12_Witness ==
    /\ call.method = "getCellColors"
    /\ call.scheme = "GRAYSCALE"
    /\ outcome.backgroundColor = RgbText(<<128, 128, 128>>)
    /\ outcome.textColor = White

----------------------------------------------------------------------------
(* C13 *)

\* C13: getCellColors of a flat dataset (max = min) returns, for every
\* value, the background getColorForValue(0.5, scheme), without dividing by
\* the range; otherwise the background of (value - min) / (max - min).
C13_FlatDatasetIsHalf ==
    (call.method = "getCellColors" /\ call.scheme \in SchemeNames) =>
        /\ outcome.kind = "ok"
        /\ call.max = call.min =>
               outcome.backgroundColor =
                   getColorForValue(<<1, 2>>, COLOR_SCHEMES[call.scheme]).text
        /\ call.max # call.min =>
               outcome.backgroundColor =
                   getColorForValue(Div(Sub(call.value, call.min),
                                        Sub(call.max, call.min)),
                                    COLOR_SCHEMES[call.scheme]).text

\* A flat dataset in the THERMAL scheme: a value away from the common
\* minimum and maximum still gets the green of the middle stop.
C13_Witness ==
    /\ call.method = "getCellColors"
    /\ call.scheme = "THERMAL"
    /\ call.max = call.min
    /\ call.value # call.min
    /\ outcome.backgroundColor = RgbText(<<0, 255, 0>>)

----------------------------------------------------------------------------
(* C14 *)

\* The in-mask numeric cells of the grid within Chebyshev distance h of (i, j).
WindowCells(grid, i, j, h) ==
    { cell \in InMaskCells(grid) :
        /\ Numeric(At(grid, cell[1], cell[2]))
        /\ Abs(cell[1] - i) <= h
        /\ Abs(cell[2] - j) <= h }

RECURSIVE SumValues(_, _)
SumValues(grid, cells) ==
    IF cells = {} THEN Whole(0)
    ELSE Add(parseNumericValue(At(grid, (CHOOSE x \in cells : TRUE)[1],
                                  (CHOOSE x \in cells : TRUE)[2])),
             SumValues(grid, cells \ {CHOOSE x \in cells : TRUE}))

Mean(grid, cells) == Div(SumValues(grid, cells), Whole(Cardinality(cells)))

\* The text is the value rounded to as many decimals as the text shows.
Renders(text, value) == text = ToFixed(value, DecimalPlaces(text))

\* C14: applyMovingAverage with an even window size w returns what it
\* returns with w + 1, and every in-mask numeric cell (i, j) gets the mean of
\* all in-mask numeric cells of the grid within Chebyshev distance
\* floor(w / 2) of (i, j).
C14_WindowMean ==
    (call.method = "movingAverage" /\ outcome.kind = "ok") =>
        /\ call.windowSize % 2 = 0 =>
               outcome = applyMovingAverage(content, call.windowSize + 1,
                                            skipFirstRow, skipFirstColumn)
        /\ call.windowSize >= 0 =>
               \A cell \in InMaskCells(content) :
                   Numeric(At(content, cell[1], cell[2])) =>
                       Renders(At(outcome.grid, cell[1], cell[2]),
                               Mean(content,
                                    WindowCells(content, cell[1], cell[2],
                                                call.windowSize \div 2)))

----------------------------------------------------------------------------
(* C15 *)

\* The kernel weight of a cell as seen from (i, j).
WeightOf(i, j, cell, sigma) == KernelValue(cell[1] - i, cell[2] - j, sigma)

RECURSIVE SumWeights(_, _, _, _)
SumWeights(i, j, cells, sigma) ==
    IF cells = {} THEN Whole(0)
    ELSE Add(WeightOf(i, j, CHOOSE x \in cells : TRUE, sigma),
             SumWeights(i, j, cells \ {CHOOSE x \in cells : TRUE}, sigma))

RECURSIVE SumWeighted(_, _, _, _, _)
SumWeighted(grid, i, j, cells, sigma) ==
    IF cells = {} THEN Whole(0)
    ELSE Add(Mul(parseNumericValue(At(grid, (CHOOSE x \in cells : TRUE)[1],
                                      (CHOOSE x \in cells : TRUE)[2])),
                 WeightOf(i, j, CHOOSE x \in cells : TRUE, sigma)),
             SumWeighted(grid, i, j, cells \ {CHOOSE x \in cells : TRUE}, sigma))

\* C15: applyGaussianSmoothing with a positive sigma gives every in-mask
\* numeric cell sum(value * weight) / sum(weight) over the in-mask numeric
\* cells of the grid within the kernel radius ceil(3 * sigma); with no
\* weight accumulated the cell keeps its text.
C15_RenormalizedKernel ==
    (call.method = "gaussian" /\ outcome.kind = "ok") =>
        \A cell \in InMaskCells(content) :
            Numeric(At(content, cell[1], cell[2])) =>
                IF call.sigma[1] > 0
                THEN Renders(At(outcome.grid, cell[1], cell[2]),
                             Div(SumWeighted(content, cell[1], cell[2],
                                     WindowCells(content, cell[1], cell[2],
                                                 Ceil(Mul(Whole(3), call.sigma))),
                                     call.sigma),
                                 SumWeights(cell[1], cell[2],
                                     WindowCells(content, cell[1], cell[2],
                                                 Ceil(Mul(Whole(3), call.sigma))),
                                     call.sigma)))
                ELSE At(outcome.grid, cell[1], cell[2])
                         = At(content, cell[1], cell[2])

----------------------------------------------------------------------------
(* C16 *)

\* The in-mask numeric cells directly above, below, left and right of (i, j).
AdjacentCells(grid, i, j) ==
    { cell \in InMaskCells(grid) :
        /\ Numeric(At(grid, cell[1], cell[2]))
        /\ Abs(cell[1] - i) + Abs(cell[2] - j) = 1 }

\* C16: applyBilinearInterpolation gives every in-mask numeric cell the mean
\* of its own value and of its numeric in-mask up/down/left/right
\* neighbours; a numeric cell without such a neighbour keeps its text.
C16_FourNeighbourMean ==
    (call.method = "bilinear" /\ outcome.kind = "ok") =>
        \A cell \in InMaskCells(content) :
            Numeric(At(content, cell[1], cell[2])) =>
                IF AdjacentCells(content, cell[1], cell[2]) = {}
                THEN At(outcome.grid, cell[1], cell[2])
                         = At(content, cell[1], cell[2])
                ELSE Renders(At(outcome.grid, cell[1], cell[2]),
                             Mean(content,
                                  {cell} \cup AdjacentCells(content, cell[1],
                                                            cell[2])))

\* The documented example: the centre of [[1,2,3],[4,5,6],[7,8,9]] without
\* mask becomes "5.00".
C16_Witness ==
    /\ call.method = "bilinear"
    /\ content = ExampleBilinear
    /\ ~skipFirstRow /\ ~skipFirstColumn
    /\ outcome.kind = "ok"
    /\ At(outcome.grid, 1, 1) = <<"5", ".", "0", "0">>

----------------------------------------------------------------------------
(* C17 *)

\* C17: every cell that a smoothing algorithm rewrites shows exactly
\* max(d, 2) decimal places, d being the number of characters after the
\* first '.' of the markup-stripped, trimmed original text (0 without '.').
C17_DecimalsOfStrippedText ==
    Smoothed =>
        \A cell \in InMaskCells(content) :
            At(outcome.grid, cell[1], cell[2]) # At(content, cell[1], cell[2]) =>
                DecimalPlaces(At(outcome.grid, cell[1], cell[2]))
                    = Max(DecimalPlaces(At(content, cell[1], cell[2])), 2)

----------------------------------------------------------------------------
(* TableBlock: this.data and the handlers of the tune menu.                 *)
(* The values of this.data are written as their JavaScript literals.        *)

True == "true"

False == "false"

\* The value of a key that is not set.
Missing == "undefined"

Truthy(v) == v \notin {False, Missing, ""}

Not(v) == IF Truthy(v) THEN False ELSE True

\* getConfig(configName, defaultValue, savedData) as the constructor calls
\* it: this.data is not yet set and the editor passes a data object ({} for
\* a new block), so  data[configName] ? data[configName] : defaultValue
getConfig(configName, defaultValue, savedData) ==
    IF Truthy(savedData[configName]) THEN savedData[configName] ELSE defaultValue

\* this.data after the constructor (the titles, which are free text, and
\* the content, which the table holds, are left out)
constructor(savedData) ==
    [ withHeadings   |-> getConfig("withHeadings", False, savedData),
      stretched      |-> getConfig("stretched", False, savedData),
      gradientColors |-> getConfig("gradientColors", False, savedData),
      colorScheme    |-> getConfig("colorScheme", "THERMAL", savedData),
      showTableTitle |-> getConfig("showTableTitle", False, savedData),
      showAxisTitles |-> getConfig("showAxisTitles", False, savedData),
      skipHeadings   |-> getConfig("skipHeadings", False, savedData) ]

\* Saved data: what save() of an earlier session returned, in the documented
\* format or with the heading values the menu sets, and {} of a new block.
HeadingValues == {False, True, "row", "column", "both"}

NewBlock ==
    [ withHeadings |-> Missing, stretched |-> Missing, gradientColors |-> Missing,
      colorScheme |-> Missing, showTableTitle |-> Missing,
      showAxisTitles |-> Missing, skipHeadings |-> Missing ]

SavedData ==
    [ withHeadings : HeadingValues, stretched : {False, True},
      gradientColors : {False, True}, colorScheme : SchemeNames,
      showTableTitle : {False, True}, showAxisTitles : {False, True},
      skipHeadings : {False, True} ] \cup {NewBlock}

\* this.data.skipHeadings &&
\*     (this.data.withHeadings === 'row' || this.data.withHeadings === 'both')
SkipFirstRowOf(d) == Truthy(d.skipHeadings) /\ d.withHeadings \in {"row", "both"}

\* this.data.skipHeadings &&
\*     (this.data.withHeadings === 'column' || this.data.withHeadings === 'both')
SkipFirstColOf(d) == Truthy(d.skipHeadings) /\ d.withHeadings \in {"column", "both"}

----------------------------------------------------------------------------
(* applySmoothingMethod: one activation of a smoothing item on a table     *)

\* parseInt(text): leading whitespace, an optional sign and the longest run
\* of decimal digits; NaN without a digit.  (A 0x prefix is not part of the
\* prompt texts of this model.)
ParseIntBody(body) ==
    IF DigitRun(body) = <<>> THEN NaN ELSE Whole(DigitsToInt(DigitRun(body)))

ParseIntTrimmed(s) ==
    IF s # <<>> /\ Head(s) = "-" THEN Negate(ParseIntBody(Tail(s)))
    ELSE IF s # <<>> /\ Head(s) = "+" THEN ParseIntBody(Tail(s))
    ELSE ParseIntBody(s)

ParseInt(text) == ParseIntTrimmed(TrimLeft(text))

\* number || fallback: NaN and 0 are falsy
OrElse(number, fallback) ==
    IF number = NaN THEN fallback
    ELSE IF number[1] = 0 THEN fallback ELSE number

\* parseInt(windowSize) || 3
WindowSizeOf(input) == OrElse(ParseInt(input), Whole(3))[1]

\* parseFloat(sigma) || 1.0
SigmaOf(input) == OrElse(ParseFloat(input), Whole(1))

\* What the user can answer to the prompt: null (cancel) or a text.
WindowInputs ==
    { Null, <<>>, <<"a", "b", "c">>, <<"0">>, <<"-", "2">>, <<"3">>,
      <<"4">>, <<"3", "p", "x">> }

SigmaInputs ==
    { Null, <<>>, <<"a", "b", "c">>, <<"0">>, <<"-", "1">>,
      <<"0", ".", "5">>, <<"1", ".", "0">> }

PromptGrids == { ExampleBilinear, ExampleMinMax, ExampleFlat, ExampleIdw }

PromptSaved ==
    { s \in SavedData :
        /\ s.stretched = False /\ s.gradientColors = False
        /\ s.colorScheme = "THERMAL"
        /\ s.showTableTitle = False /\ s.showAxisTitles = False }

InitPrompt ==
    /\ content \in PromptGrids
    /\ data \in { constructor(s) : s \in PromptSaved }
    /\ skipFirstRow = FALSE
    /\ skipFirstColumn = FALSE
    /\ call = NoCall
    /\ outcome = [kind |-> "none"]
    /\ rows = <<>>
    /\ result = <<>>
    /\ pending = {}

\* if (input === null) return;
Cancelled(method) ==
    /\ call' = [method |-> "cancelled", item |-> method, input |-> Null]
    /\ UNCHANGED <<content, outcome>>

\* smoothedContent = apply...(content, parameter, skipFirstRow, skipFirstCol);
\* then every cell of smoothedContent is set in the table.  An exception of
\* the core leaves the handler before any cell is set.
Smooth(c, smoothedContent) ==
    /\ call' = c
    /\ outcome' = smoothedContent
    /\ content' = IF smoothedContent.kind = "ok" THEN smoothedContent.grid
                  ELSE content

Activate ==
    /\ call = NoCall
    /\ skipFirstRow' = SkipFirstRowOf(data)
    /\ skipFirstColumn' = SkipFirstColOf(data)
    /\ UNCHANGED <<rows, result, pending, data>>

ApplySmoothingMovingAverage ==
    \E input \in WindowInputs :
        /\ Activate
        /\ IF input = Null THEN Cancelled("movingAverage")
           ELSE Smooth([input |-> input] @@ MovingAverageCall(WindowSizeOf(input)),
                       applyMovingAverage(content, WindowSizeOf(input),
                                          SkipFirstRowOf(data), SkipFirstColOf(data)))

ApplySmoothingGaussian ==
    \E input \in SigmaInputs :
        /\ Activate
        /\ IF input = Null THEN Cancelled("gaussian")
           ELSE Smooth([input |-> input] @@ GaussianCall(SigmaOf(input)),
                       applyGaussianSmoothing(content, SigmaOf(input),
                                              SkipFirstRowOf(data), SkipFirstColOf(data)))

ApplySmoothingBilinear ==
    /\ Activate
    /\ Smooth(BilinearCall,
              applyBilinearInterpolation(content, SkipFirstRowOf(data),
                                         SkipFirstColOf(data)))

NextPrompt ==
    \/ ApplySmoothingMovingAverage
    \/ ApplySmoothingGaussian
    \/ ApplySmoothingBilinear

SpecPrompt == InitPrompt /\ [][NextPrompt]_vars

----------------------------------------------------------------------------
(* C18 *)

\* C18: whatever is entered at the prompt, applySmoothingMethod passes a
\* positive integer window size to applyMovingAverage, 3 for a text that
\* does not parse, and a positive sigma to applyGaussianSmoothing, 1.0 for
\* a text that does not parse; a cancelled prompt writes nothing.
C18_PositiveParameters ==
    [][ /\ call'.method = "movingAverage" =>
              /\ call'.windowSize > 0
              /\ ParseInt(call'.input) = NaN => call'.windowSize = 3
        /\ call'.method = "gaussian" =>
              /\ call'.sigma[1] > 0
              /\ ParseFloat(call'.input) = NaN => call'.sigma = Whole(1)
        /\ call'.method = "cancelled" =>
              content' = content /\ outcome' = [kind |-> "none"]
      ]_vars

----------------------------------------------------------------------------
(* TableBlock: the items of the tune menu that set this.data, paste, save.  *)
(* outcome is what the last handler returned: the saved data after save(),  *)
(* nothing after an item or a paste.  The smoothing and auto-fill items     *)
(* write cells of the table and leave this.data alone (see above).          *)

\* The table of the saved data, and the tables that are pasted.
SavedContent == ExampleMinMax

PastedContents == { ExampleFlat, ExampleIdw }

\* Saved data in the documented format (withHeadings a boolean), and {}.
DocumentedData == { s \in SavedData : s.withHeadings \in {True, False, Missing} }

InitBlock ==
    /\ content = SavedContent
    /\ data \in { constructor(s) : s \in DocumentedData }
    /\ skipFirstRow = FALSE
    /\ skipFirstColumn = FALSE
    /\ call = NoCall
    /\ outcome = [kind |-> "none"]
    /\ rows = <<>>
    /\ result = <<>>
    /\ pending = {}

\* An item's onActivate, or onPaste, leaves this.data = d and the table c.
Handled(d, c) ==
    /\ data' = d
    /\ content' = c
    /\ call' = NoCall
    /\ outcome' = [kind |-> "none"]
    /\ UNCHANGED <<skipFirstRow, skipFirstColumn, rows, result, pending>>

\* '1st Row': row -> false, column -> both, both -> column, else -> row
RowHeadingsOf(currentHeadings) ==
    CASE currentHeadings = "row" -> False
      [] currentHeadings = "column" -> "both"
      [] currentHeadings = "both" -> "column"
      [] OTHER -> "row"

\* '1st Column': column -> false, row -> both, both -> row, else -> column
ColumnHeadingsOf(currentHeadings) ==
    CASE currentHeadings = "column" -> False
      [] currentHeadings = "row" -> "both"
      [] currentHeadings = "both" -> "row"
      [] OTHER -> "column"

RowHeadings ==
    Handled([data EXCEPT !.withHeadings = RowHeadingsOf(@)], content)

ColumnHeadings ==
    Handled([data EXCEPT !.withHeadings = ColumnHeadingsOf(@)], content)

NoHeadings == Handled([data EXCEPT !.withHeadings = False], content)

\* this.data.stretched = !this.data.stretched
Stretch == Handled([data EXCEPT !.stretched = Not(@)], content)

\* 'Thermal', 'Automotive', 'Viridis', 'Grayscale'
SetColorScheme ==
    \E scheme \in SchemeNames :
        Handled([data EXCEPT !.gradientColors = True, !.colorScheme = scheme],
                content)

DisableGradient == Handled([data EXCEPT !.gradientColors = False], content)

\* this.data.skipHeadings = !this.data.skipHeadings
SkipHeadings == Handled([data EXCEPT !.skipHeadings = Not(@)], content)

\* newState = !(this.data.showTableTitle === true)
TableTitle ==
    Handled([data EXCEPT !.showTableTitle = IF @ = True THEN False ELSE True],
            content)

\* newState = !(this.data.showAxisTitles === true)
AxisTitles ==
    Handled([data EXCEPT !.showAxisTitles = IF @ = True THEN False ELSE True],
            content)

\* this.data = { withHeadings: firstRowHeading !== null, content }: every
\* other key of this.data is gone; the table is rendered anew from it.
onPaste ==
    \E firstRowHeading \in {True, False}, pasted \in PastedContents :
        Handled([NewBlock EXCEPT !.withHeadings = firstRowHeading], pasted)

\* save(): the keys of this.data and the content of the table
save ==
    [ withHeadings   |-> data.withHeadings,
      stretched      |-> data.stretched,
      gradientColors |-> data.gradientColors,
      colorScheme    |-> data.colorScheme,
      showTableTitle |-> data.showTableTitle,
      showAxisTitles |-> data.showAxisTitles,
      skipHeadings   |-> data.skipHeadings,
      content        |-> content ]

Save ==
    /\ call' = [method |-> "save"]
    /\ outcome' = [kind |-> "ok", data |-> save]
    /\ UNCHANGED <<content, data, skipFirstRow, skipFirstColumn, rows, result, pending>>

NextBlock ==
    \/ RowHeadings
    \/ ColumnHeadings
    \/ NoHeadings
    \/ Stretch
    \/ SetColorScheme
    \/ DisableGradient
    \/ SkipHeadings
    \/ TableTitle
    \/ AxisTitles
    \/ onPaste
    \/ Save

SpecBlock == InitBlock /\ [][NextBlock]_vars

----------------------------------------------------------------------------
(* C19 *)

BooleanKeys ==
    { "withHeadings", "stretched", "gradientColors", "showTableTitle",
      "showAxisTitles", "skipHeadings" }

\* C19: whatever items were activated and tables pasted since the block
\* was constructed from saved data, save() returns withHeadings, stretched,
\* gradientColors, showTableTitle, showAxisTitles and skipHeadings as
\* booleans and colorScheme as one of the four scheme names.
C19_SavedFormat ==
    call.method = "save" =>
        /\ \A key \in BooleanKeys : outcome.data[key] \in {True, False}
        /\ outcome.data.colorScheme \in SchemeNames

----------------------------------------------------------------------------
(* C20 *)

\* The in-mask numeric cells of row i.
NumericInRow(grid, i) ==
    { cell \in InMaskCells(grid) :
        cell[1] = i /\ Numeric(At(grid, cell[1], cell[2])) }

\* C20: autoFillBlanks searches every existing in-mask column of the row of
\* a blank cell, whatever the length of row 0: a blank in-mask cell whose
\* row holds an in-mask number is filled.
C20_RowExtentSearched ==
    Filled =>
        \A cell \in InMaskCells(content) :
            ( /\ IsBlank(At(content, cell[1], cell[2]))
              /\ NumericInRow(content, cell[1]) # {} )
                => Numeric(At(outcome.grid, cell[1], cell[2]))

----------------------------------------------------------------------------
(* C21 *)

\* smoothedValue of the iteration (i, j) of a smoothing pass, before toFixed.
SmoothedValue(c, src, i, j, startRow, startCol) ==
    CASE c.method = "movingAverage" ->
             MovingAverageValue(
                 MovingAverageSum(src, i, j, WindowOffsets(c.halfWindow),
                                  startRow, startCol,
                                  [sum |-> Whole(0), count |-> 0]))
      [] c.method = "gaussian" ->
             GaussianValue(
                 GaussianSum(src, i, j, WindowOffsets(HalfSize(c.sigma)), c.sigma,
                             c.kernelSum, startRow, startCol,
                             [sum |-> Whole(0), weightSum |-> Whole(0)]))
      [] c.method = "bilinear" ->
             BilinearValue(parseNumericValue(At(src, i, j)),
                           BilinearNeighbors(src, i, j, startRow, startCol))

\* The iteration (i, j) of the call assigns result[i][j].
Rewrites(c, src, i, j) ==
    CellUpdate(c, src, i, j, StartRow(skipFirstRow), StartCol(skipFirstColumn))
        # NoWrite

\* The window size or sigma of the call, where it has one, is positive.
PositiveParameter ==
    /\ call.method = "movingAverage" => call.windowSize > 0
    /\ call.method = "gaussian" => Less(Whole(0), call.sigma)

Between(value, range) == Leq(range.min, value) /\ Leq(value, range.max)

----------------------------------------------------------------------------
(* C22 *)

\* The smoothing calls of the model.
SmoothingCalls ==
    { MovingAverageCall(windowSize) : windowSize \in WindowSizes }
        \cup { GaussianCall(sigma) : sigma \in Sigmas }
        \cup { BilinearCall }

\* The iteration (i, j) of autoFillBlanks assigns result[i][j].
Fills(src, i, j) ==
    AutoFillCell(src, i, j, StartRow(skipFirstRow), StartCol(skipFirstColumn))
        # NoWrite

\* C22: no cell that isEmpty accepts parses as a number; a smoothing call
\* changes no cell that isEmpty accepts and rewrites no cell that
\* autoFillBlanks rewrites on the same grid and mask; autoFillBlanks changes
\* no cell that parses as a number and rewrites no cell that any smoothing
\* call rewrites.
C22_BlankNumericDisjoint ==
    /\ \A cell \in GridCells(content) :
           ~(isEmpty(At(content, cell[1], cell[2]))
                /\ Numeric(At(content, cell[1], cell[2])))
    /\ Smoothed =>
           \A cell \in GridCells(content) :
               (\/ At(outcome.grid, cell[1], cell[2]) # At(content, cell[1], cell[2])
                \/ Rewrites(call, content, cell[1], cell[2]))
                   => /\ ~isEmpty(At(content, cell[1], cell[2]))
                      /\ ~Fills(content, cell[1], cell[2])
    /\ Filled =>
           \A cell \in GridCells(content) :
               (\/ At(outcome.grid, cell[1], cell[2]) # At(content, cell[1], cell[2])
                \/ Fills(content, cell[1], cell[2]))
                   => /\ ~Numeric(At(content, cell[1], cell[2]))
                      /\ \A c \in SmoothingCalls :
                             ~Rewrites(c, content, cell[1], cell[2])

\* autoFillBlanks filled a blank cell of a grid that also holds, inside the
\* mask, a markup-only cell and a number a moving average rewrites.
C22_Witness ==
    /\ Filled
    /\ \E cell \in InMaskCells(content) :
           /\ At(content, cell[1], cell[2]) = <<>>
           /\ At(outcome.grid, cell[1], cell[2]) # <<>>
    /\ \E cell \in InMaskCells(content) :
           /\ At(content, cell[1], cell[2]) # <<>>
           /\ isEmpty(At(content, cell[1], cell[2]))
    /\ \E cell \in InMaskCells(content) :
           Rewrites(MovingAverageCall(3), content, cell[1], cell[2])

----------------------------------------------------------------------------
(* C23 *)

\* isActive of '1st Row': withHeadings === 'row' || withHeadings === 'both'
RowHeadingsActive(d) == d.withHeadings = "row" \/ d.withHeadings = "both"

\* isActive of '1st Column': withHeadings === 'column' || ... === 'both'
ColumnHeadingsActive(d) == d.withHeadings = "column" \/ d.withHeadings = "both"

\* isActive of 'None': !withHeadings || withHeadings === false
NoHeadingsActive(d) == ~Truthy(d.withHeadings) \/ d.withHeadings = False

\* The keys of this.data other than withHeadings are the same in d and e.
SameButHeadings(d, e) ==
    [d EXCEPT !.withHeadings = False] = [e EXCEPT !.withHeadings = False]

\* C23: in every state of the block data.withHeadings is one of false,
\* 'row', 'column', 'both', and 'None' is active exactly when neither
\* '1st Row' nor '1st Column' is; activating '1st Row' flips the row-heading
\* flag and nothing else, activating '1st Column' flips the column-heading
\* flag and nothing else.
C23_HeadingValues ==
    /\ [](/\ data.withHeadings \in {False, "row", "column", "both"}
          /\ NoHeadingsActive(data)
                 <=> (~RowHeadingsActive(data) /\ ~ColumnHeadingsActive(data)))
    /\ [][ /\ RowHeadings =>
                 /\ RowHeadingsActive(data') # RowHeadingsActive(data)
                 /\ ColumnHeadingsActive(data') = ColumnHeadingsActive(data)
                 /\ SameButHeadings(data', data)
           /\ ColumnHeadings =>
                 /\ ColumnHeadingsActive(data') # ColumnHeadingsActive(data)
                 /\ RowHeadingsActive(data') = RowHeadingsActive(data)
                 /\ SameButHeadings(data', data)
         ]_vars

\* The flips alone, as the two items compute them.
C23_FlipsOnly ==
    [][ /\ RowHeadings =>
              /\ RowHeadingsActive(data') # RowHeadingsActive(data)
              /\ ColumnHeadingsActive(data') = ColumnHeadingsActive(data)
              /\ SameButHeadings(data', data)
        /\ ColumnHeadings =>
              /\ ColumnHeadingsActive(data') # ColumnHeadingsActive(data)
              /\ RowHeadingsActive(data') = RowHeadingsActive(data)
              /\ SameButHeadings(data', data)
      ]_vars

\* A paste of a table with a header row has left withHeadings = true: none
\* of the three heading items is active.
PastedHeader ==
    /\ data.withHeadings = True
    /\ content \in PastedContents
    /\ ~NoHeadingsActive(data)
    /\ ~RowHeadingsActive(data)
    /\ ~ColumnHeadingsActive(data)

=============================================================================
